---------------------------- MODULE Spec2Model ----------------------------
(***************************************************************************)
(* State-machine model of servers/screenshare_mcp.py: the process-wide     *)
(* capture source _SRC, the six MCP tools that act on it, the fallback     *)
(* chain of _grab and the burst loop.                                      *)
(*                                                                         *)
(* Conventions.                                                            *)
(*  - Python None is the record None, the empty dict {} is EmptyDict.      *)
(*  - scale is kept in hundredths (100 is 1.0, 10 is 0.1).                 *)
(*  - Times are in milliseconds, relative to the start of the running tool *)
(*    call (time.perf_counter has no defined epoch).                       *)
(*  - A tool call that ends by an exception leaving the tool function is   *)
(*    recorded as a response with raised = TRUE.                           *)
(*  - The environment (mss, the file system, the external programs) is an  *)
(*    input of every action: which of its calls raise is chosen with \E.   *)
(*  - The burst loop is one action per iteration; while pc # "idle" only   *)
(*    the running burst can take a step (tools run one at a time).         *)
(*  - A finished call leaves pc = "done" with its response in resp; the    *)
(*    transport then delivers the response and awaits the next request.    *)
(***************************************************************************)
EXTENDS Integers, Sequences, FiniteSets, TLC

VARIABLES
    _SRC,       \* the _SRC dict: sct, monitor_index, region, scale, props
    live,       \* capture handles acquired (mss.mss()) and not yet closed
    pc,         \* "idle" (awaiting a request), the position of the running
                \* burst, or "done" (a response is on its way to the client)
    burst,      \* the locals of the running screenshare_burst call
    now,        \* clock, ms since the running tool call began
    written,    \* paths of the files written by the last/running tool call
    ngrabs,     \* number of _grab calls the last/running tool call has made
    lastgrab,   \* what the latest of them tried and returned (None: no _grab yet)
    call,       \* the last tool call: tool, args, _SRC and live before it
    resp,       \* what the last tool call returned (or that it raised)
    stopped     \* the props of the source that the tool call before this one
                \* closed (None when that call closed no source)

vars ==
    <<_SRC, live, pc, burst, now, written, ngrabs, lastgrab, call, resp, stopped>>

-----------------------------------------------------------------------------
(* Bounds of the model *)

\* len(sct.monitors): index 0 is the virtual screen, 1..NumMonitors-1 are real
NumMonitors == 3
\* width and height of every real monitor
MonW == 4
MonH == 3
\* live handles the model lets leak before it stops injecting that fault
MaxLive == 1
\* Windows primary screen, as the PowerShell fallback captures it
HostW == 5
HostH == 2
\* longest time one _grab takes, ms
MaxGrabMs == 1
\* most frames of one burst
MaxFrames == 3
\* longest time.sleep returns after the time asked, ms
MaxOversleep == 1

-----------------------------------------------------------------------------
(* Python values *)

None == [py |-> "None"]
EmptyDict == [k \in {} |-> 0]

Max(a, b) == IF a >= b THEN a ELSE b
Min(a, b) == IF a <= b THEN a ELSE b

\* A message (a str of the program); formatted-in values are further fields
Msg(text) == [text |-> text]

\* The handle mss.mss() returns
Handle == [py |-> "mss"]

\* sct.monitors: real monitors side by side, monitor 0 their bounding box
Monitors ==
    [i \in 0..(NumMonitors - 1) |->
        IF i = 0
        THEN [left |-> 0, top |-> 0,
              width |-> Max(1, (NumMonitors - 1) * MonW), height |-> MonH]
        ELSE [left |-> (i - 1) * MonW, top |-> 0,
              width |-> MonW, height |-> MonH]]

\* _SRC as the module sets it at import
SRC0 ==
    [sct |-> None, monitor_index |-> 1, region |-> None, scale |-> 100,
     props |-> EmptyDict]

-----------------------------------------------------------------------------
(* _open_source *)

\* lines 85-86 adding left and top as given, negative or not
Region_RawOffsets(mon, a) ==
    IF a.width <= 0 \/ a.height <= 0
    THEN [left |-> mon.left, top |-> mon.top,
          width |-> mon.width, height |-> mon.height]
    ELSE [left |-> mon.left + a.left, top |-> mon.top + a.top,
          width |-> Max(1, a.width), height |-> Max(1, a.height)]

\* region of lines 75-89
Region(mon, a) ==
    IF a.width <= 0 \/ a.height <= 0
    THEN [left |-> mon.left, top |-> mon.top,
          width |-> mon.width, height |-> mon.height]
    ELSE [left |-> mon.left + Max(0, a.left), top |-> mon.top + Max(0, a.top),
          width |-> Max(1, a.width), height |-> Max(1, a.height)]

\* line 91 without its lower limit
EffectiveScale_NoFloor(s) ==
    Min(100, IF s = 0 THEN 100 ELSE s)

\* line 91: max(0.1, min(1.0, float(scale or 1.0))), in hundredths
EffectiveScale(s) ==
    Max(10, Min(100, IF s = 0 THEN 100 ELSE s))

\* monitors[i] of line 73, a Python list index (a negative i counts from the end)
MonitorAt(i) ==
    IF i < 0 THEN Monitors[NumMonitors + i] ELSE Monitors[i]

\* lines 93-103
Published(a) ==
    LET region == Region(MonitorAt(a.monitor_index), a)
        scale == EffectiveScale(a.scale)
    IN  [sct |-> Handle, monitor_index |-> a.monitor_index, region |-> region,
         scale |-> scale,
         props |-> [monitor_index |-> a.monitor_index, region |-> region,
                    scale |-> scale]]

\* line 69 without its test of a negative index
InvalidIndex_NoLowerTest(i) == i >= NumMonitors

\* line 69
InvalidIndex(i) == i < 0 \/ i >= NumMonitors

\* lines 63-106: _open_source(a) past its first test, on _SRC = S.
\* env.mss_fails: mss.mss() raises; env.monitors_fails: sct.monitors raises.
\* The result names the new _SRC, the handles acquired and closed on the way
\* and either (ok, msg) or raised.
OpenFresh(S, a, env) ==
    IF env.mss_fails
    THEN [raised |-> FALSE, ok |-> FALSE, msg |-> Msg("Failed to initialize mss"),
          src |-> S, acquired |-> 0, closed |-> 0]
    ELSE IF env.monitors_fails
    THEN [raised |-> TRUE, ok |-> FALSE, msg |-> Msg("ScreenShotError"),
          src |-> S, acquired |-> 1, closed |-> 0]
    ELSE IF InvalidIndex(a.monitor_index)
    THEN [raised |-> FALSE, ok |-> FALSE,
          msg |-> [text |-> "Invalid monitor_index", index |-> a.monitor_index,
                   available |-> NumMonitors - 1],
          src |-> S, acquired |-> 1, closed |-> 1]
    ELSE [raised |-> FALSE, ok |-> TRUE, msg |-> Msg("Screen source initialized"),
          src |-> Published(a), acquired |-> 1, closed |-> 0]

\* _open_source without the early return of lines 60-61
_open_source_Reopens(S, a, env) == OpenFresh(S, a, env)

\* lines 58-106
_open_source(S, a, env) ==
    IF S.sct # None
    THEN [raised |-> FALSE, ok |-> TRUE,
          msg |-> Msg("Screen capture already initialized"),
          src |-> S, acquired |-> 0, closed |-> 0]
    ELSE OpenFresh(S, a, env)

-----------------------------------------------------------------------------
(* _close_source *)

\* lines 110-116 leaving _SRC and its handle as they are
_close_source_LeavesSource(S, env) ==
    [src |-> S, closed |-> 0]

\* line 116 clearing the handle alone
_close_source_KeepsConfig(S, env) ==
    [src |-> [S EXCEPT !.sct = None],
     closed |-> IF S.sct # None /\ env.close # "raises_held" THEN 1 ELSE 0]

\* lines 109-116. env.close is what sct.close() does: "ok", or it raises with
\* the handle released after all ("raises") or still held ("raises_held").
_close_source(S, env) ==
    [src |-> [sct |-> None, monitor_index |-> 1, region |-> None, scale |-> 100,
              props |-> EmptyDict],
     closed |-> IF S.sct # None /\ env.close # "raises_held" THEN 1 ELSE 0]

-----------------------------------------------------------------------------
(* _grab *)

\* lines 145-148 (and 177-180, 199-202): the resize every mechanism applies
Scaled(img, scale) ==
    IF 0 < scale /\ scale < 100
    THEN [width |-> Max(1, (img.width * scale) \div 100),
          height |-> Max(1, (img.height * scale) \div 100)]
    ELSE img

\* The failure reasons str(e) of the three mechanisms
ErrPrimary == Msg("XGetImage() failed")
ErrPowerShell == Msg("powershell.exe returned non-zero exit status 1")
ErrNoTool == Msg("no compositor screenshot tool (gnome-screenshot/grim) found")
ErrTool(util) == [text |-> "returned non-zero exit status 1", cmd |-> util]

\* lines 190-196 asking for grim before gnome-screenshot
Compositor_GrimFirst(scale, g) ==
    LET util == IF g.grim THEN "grim"
                ELSE IF g.gnome THEN "gnome-screenshot" ELSE "none"
        full == [width |-> Monitors[0].width, height |-> Monitors[0].height]
    IN  IF util # "none" /\ g.tool_ok
        THEN [mech |-> "fallback", util |-> util, ok |-> TRUE, err |-> None,
              img |-> Scaled(full, scale)]
        ELSE [mech |-> "fallback", util |-> util, ok |-> FALSE,
              err |-> IF util = "none" THEN ErrNoTool ELSE ErrTool(util),
              img |-> None]

\* lines 188-205: the compositor fallback. g.gnome, g.grim: shutil.which finds
\* the utility; g.tool_ok: the utility runs and its file opens.
Compositor(scale, g) ==
    LET util == IF g.gnome THEN "gnome-screenshot"
                ELSE IF g.grim THEN "grim" ELSE "none"
        full == [width |-> Monitors[0].width, height |-> Monitors[0].height]
    IN  IF util # "none" /\ g.tool_ok
        THEN [mech |-> "fallback", util |-> util, ok |-> TRUE, err |-> None,
              img |-> Scaled(full, scale)]
        ELSE [mech |-> "fallback", util |-> util, ok |-> FALSE,
              err |-> IF util = "none" THEN ErrNoTool ELSE ErrTool(util),
              img |-> None]

\* lines 142-151: the mss fast path on the configured region. Without a
\* handle or a region sct.grab(region) raises, inside the try like any other
\* failure of the fast path.
Primary(sct, region, scale, g) ==
    IF g.primary_ok /\ sct # None /\ region # None
    THEN [mech |-> "mss", util |-> "mss", ok |-> TRUE, err |-> None,
          img |-> Scaled([width |-> region.width, height |-> region.height], scale)]
    ELSE [mech |-> "mss", util |-> "mss", ok |-> FALSE, err |-> ErrPrimary,
          img |-> None]

\* lines 176-181 without the resize of lines 177-180
PowerShell_Unscaled(scale, g) ==
    IF g.ps_ok
    THEN [mech |-> "wsl_ps", util |-> "powershell.exe", ok |-> TRUE, err |-> None,
          img |-> [width |-> HostW, height |-> HostH]]
    ELSE [mech |-> "wsl_ps", util |-> "powershell.exe", ok |-> FALSE,
          err |-> ErrPowerShell, img |-> None]

\* lines 154-185: the PowerShell capture of the Windows primary screen
PowerShell(scale, g) ==
    IF g.ps_ok
    THEN [mech |-> "wsl_ps", util |-> "powershell.exe", ok |-> TRUE, err |-> None,
          img |-> Scaled([width |-> HostW, height |-> HostH], scale)]
    ELSE [mech |-> "wsl_ps", util |-> "powershell.exe", ok |-> FALSE,
          err |-> ErrPowerShell, img |-> None]

\* line 185
NotApplicable == Msg("n/a")

\* line 208 leaving out the reason of the PowerShell fallback
FailedToGrab_DropsWsl(err_primary, err_ps, err_fallback) ==
    [text |-> "Failed to grab", mss |-> err_primary, wsl_ps |-> NotApplicable,
     fallback |-> err_fallback]

\* line 208: the aggregated message
FailedToGrab(err_primary, err_ps, err_fallback) ==
    [text |-> "Failed to grab", mss |-> err_primary, wsl_ps |-> err_ps,
     fallback |-> err_fallback]

\* line 138 testing nothing
NotInitialized_Never(S) == FALSE

\* line 138
NotInitialized(S) == S.sct = None \/ S.region = None

\* _grab() on _SRC = S; g.wsl is what _is_wsl() returns. The result: ok, img
\* (None on failure), msg, and, for the record of the run, tried, the
\* mechanisms attempted in order, and env, the environment it ran in.
_grab(S, g) ==
    IF NotInitialized(S)
    THEN [ok |-> FALSE, img |-> None, msg |-> Msg("Screen source not initialized"),
          tried |-> <<>>, env |-> g]
    ELSE
    LET w == g.wsl
        p == Primary(S.sct, S.region, S.scale, g)
        ps == PowerShell(S.scale, g)
        fb == Compositor(S.scale, g)
    IN  IF p.ok
        THEN [ok |-> TRUE, img |-> p.img, msg |-> Msg("ok"), tried |-> <<p>>,
              env |-> g]
        ELSE IF w /\ ps.ok
        THEN [ok |-> TRUE, img |-> ps.img, msg |-> Msg("ok"), tried |-> <<p, ps>>,
              env |-> g]
        ELSE IF fb.ok
        THEN [ok |-> TRUE, img |-> fb.img, msg |-> Msg("ok"),
              tried |-> IF w THEN <<p, ps, fb>> ELSE <<p, fb>>, env |-> g]
        ELSE [ok |-> FALSE, img |-> None,
              msg |-> FailedToGrab(p.err, IF w THEN ps.err ELSE NotApplicable, fb.err),
              tried |-> IF w THEN <<p, ps, fb>> ELSE <<p, fb>>, env |-> g]

\* Whether the grab of environment g gets a frame (from an open source)
Grabs(g) ==
    g.primary_ok \/ (g.wsl /\ g.ps_ok) \/ ((g.gnome \/ g.grim) /\ g.tool_ok)

\* What the environment decides in one _grab, and how long the grab takes.
\* A decision the grab never reads is fixed to TRUE, so that every distinct
\* course of a grab is listed once.
GrabEnv ==
    {g \in [primary_ok : BOOLEAN, wsl : BOOLEAN, ps_ok : BOOLEAN, gnome : BOOLEAN,
            grim : BOOLEAN, tool_ok : BOOLEAN, ms : 0..MaxGrabMs] :
        /\ g.primary_ok => g.wsl
        /\ (g.primary_ok \/ ~g.wsl) => g.ps_ok
        /\ (g.primary_ok \/ (g.wsl /\ g.ps_ok)) => (g.gnome /\ g.grim /\ g.tool_ok)
        /\ g.gnome => g.grim
        /\ (~g.gnome /\ ~g.grim) => g.tool_ok}

-----------------------------------------------------------------------------
(* _encode_image_pil, _timestamp_name *)

\* lines 211-229; enc_ok: img.save does not raise
_encode_image_pil(img, fmt, enc_ok) ==
    LET f == IF fmt = "" THEN "jpg" ELSE fmt
    IN  IF enc_ok
        THEN [ok |-> TRUE, mime |-> IF f = "jpg" THEN "image/jpeg" ELSE "image/png",
              width |-> img.width, height |-> img.height]
        ELSE [ok |-> FALSE, mime |-> "encode failed", width |-> img.width,
              height |-> img.height]

\* lines 314 and 384
Ext(mime) == IF mime = "image/jpeg" THEN ".jpg" ELSE ".png"

\* lines 232-235, at clock t: prefix_<time to the ms><ext>
_timestamp_name(prefix, ext, t) ==
    [prefix |-> prefix, ts |-> t, ext |-> ext]

\* lines 382-385 without the index of the frame in the name
BurstName_NoIndex(i, ext, t) ==
    [prefix |-> "scr", ts |-> t, seq |-> 0, ext |-> ext]

\* lines 382-385 of the burst loop: scr_<time to the ms>_<i><ext>
BurstName(i, ext, t) ==
    [prefix |-> "scr", ts |-> t, seq |-> i, ext |-> ext]

\* out_dir / fname
Path(dir, fname) == [dir |-> dir, name |-> fname]

-----------------------------------------------------------------------------
(* Inputs of the tools *)

MonitorIndexInputs == (-1)..NumMonitors
ScaleInputs == {-50, 0, 5, 50, 100, 150}
FormatInputs == {"jpg", "png"}

\* left, top, width, height: the defaults, a crop, a crop at negative offsets,
\* and offsets with a width or a height that is not positive
Geometries ==
    {[left |-> 0, top |-> 0, width |-> 0, height |-> 0],
     [left |-> 1, top |-> 2, width |-> 2, height |-> 1],
     [left |-> -1, top |-> -2, width |-> 3, height |-> 2],
     [left |-> 1, top |-> 1, width |-> -1, height |-> 2],
     [left |-> 1, top |-> 0, width |-> 2, height |-> 0]}

StartArgs ==
    {[monitor_index |-> m, left |-> geo.left, top |-> geo.top, width |-> geo.width,
      height |-> geo.height, scale |-> sc] :
        m \in MonitorIndexInputs, geo \in Geometries, sc \in ScaleInputs}

CaptureArgs == [save_dir : {"~/.screen_frames"}, format : FormatInputs]

\* open(fpath, "wb") and f.write(data): "ok"; open raises ("open_fails", no
\* file); write raises after the file was created ("write_fails")
WriteOutcomes == {"ok", "open_fails", "write_fails"}

\* The files a write leaves behind
Wrote(path, outcome) ==
    IF outcome = "open_fails" THEN <<>>
    ELSE <<[path |-> path, complete |-> (outcome = "ok")]>>

\* A tool call that ends by exception exc leaving the tool function
Raised(tool, exc) == [tool |-> tool, raised |-> TRUE, exc |-> Msg(exc)]

\* The record of a tool call, taken as it begins
Call(tool, args, env) ==
    [tool |-> tool, args |-> args, env |-> env, pre |-> _SRC, pre_live |-> live]

-----------------------------------------------------------------------------
(* The tools *)

\* lines 248-259 with the loop left at i >= max_index
Displays_StopsOneEarly(max_index) ==
    [k \in 1..Max(0, Min(max_index, NumMonitors)) |->
        [index |-> k - 1, left |-> Monitors[k - 1].left,
         top |-> Monitors[k - 1].top, width |-> Monitors[k - 1].width,
         height |-> Monitors[k - 1].height, virtual |-> (k - 1 = 0)]]

\* lines 248-259: the list out, one entry per monitor up to the first index
\* above max_index
Displays(max_index) ==
    [k \in 1..Max(0, Min(max_index + 1, NumMonitors)) |->
        [index |-> k - 1, left |-> Monitors[k - 1].left,
         top |-> Monitors[k - 1].top, width |-> Monitors[k - 1].width,
         height |-> Monitors[k - 1].height, virtual |-> (k - 1 = 0)]]

\* lines 242-262. The handle of line 246 is released as the with block is
\* left, by return or by exception.
list_displays(max_index, env) ==
    /\ pc = "idle"
    /\ call' = Call("list_displays", [max_index |-> max_index], env)
    /\ resp' =
        IF env.mss_fails \/ env.monitors_fails
        THEN [tool |-> "list_displays", raised |-> FALSE, displays |-> <<>>,
              error |-> Msg("ScreenShotError")]
        ELSE [tool |-> "list_displays", raised |-> FALSE,
              displays |-> Displays(max_index), error |-> None]
    /\ now' = 0 /\ written' = <<>> /\ ngrabs' = 0 /\ lastgrab' = None
    /\ burst' = None
    /\ pc' = "done"
    /\ UNCHANGED <<_SRC, live, stopped>>

\* lines 265-281
screenshare_start(a, env) ==
    /\ pc = "idle"
    /\ env.monitors_fails => live < MaxLive
    /\ LET r == _open_source(_SRC, a, env)
       IN  /\ _SRC' = r.src
           /\ live' = live + r.acquired - r.closed
           /\ resp' =
                IF r.raised THEN Raised("screenshare_start", r.msg.text)
                ELSE [tool |-> "screenshare_start", raised |-> FALSE, ok |-> r.ok,
                      message |-> r.msg, props |-> r.src.props,
                      monitor_index |-> r.src.monitor_index]
    /\ call' = Call("screenshare_start", a, env)
    /\ now' = 0 /\ written' = <<>> /\ ngrabs' = 0 /\ lastgrab' = None
    /\ burst' = None
    /\ pc' = "done"
    /\ UNCHANGED stopped

\* line 288 reporting open without a look at the handle
Status_AlwaysOpen(S) ==
    [tool |-> "screenshare_status", raised |-> FALSE, open |-> TRUE,
     monitor_index |-> S.monitor_index, props |-> S.props]

\* lines 285-292, on _SRC = S
Status(S) ==
    [tool |-> "screenshare_status", raised |-> FALSE, open |-> (S.sct # None),
     monitor_index |-> S.monitor_index, props |-> S.props]

\* lines 284-292
screenshare_status ==
    /\ pc = "idle"
    /\ call' = Call("screenshare_status", EmptyDict, EmptyDict)
    /\ resp' = Status(_SRC)
    /\ now' = 0 /\ written' = <<>> /\ ngrabs' = 0 /\ lastgrab' = None
    /\ burst' = None
    /\ pc' = "done"
    /\ UNCHANGED <<_SRC, live, stopped>>

\* lines 295-329
screenshare_capture(a, env) ==
    /\ pc = "idle"
    /\ LET g == _grab(_SRC, env.g)
           e == _encode_image_pil(g.img, a.format, env.enc_ok)
           fpath == Path(a.save_dir, _timestamp_name("screen", Ext(e.mime), env.g.ms))
       IN  /\ ngrabs' = 1
           /\ lastgrab' = g
           /\ now' = IF g.tried = <<>> THEN 0 ELSE env.g.ms
           /\ IF ~g.ok \/ g.img = None
              THEN /\ resp' = [tool |-> "screenshare_capture", raised |-> FALSE,
                               ok |-> FALSE, error |-> g.msg]
                   /\ written' = <<>>
              ELSE IF ~e.ok
              THEN /\ resp' = [tool |-> "screenshare_capture", raised |-> FALSE,
                               ok |-> FALSE, error |-> Msg(e.mime)]
                   /\ written' = <<>>
              ELSE IF ~env.mkdir_ok
              THEN /\ resp' = Raised("screenshare_capture", "OSError")
                   /\ written' = <<>>
              ELSE IF env.write # "ok"
              THEN /\ resp' = [tool |-> "screenshare_capture", raised |-> FALSE,
                               ok |-> FALSE, error |-> Msg("Failed to write file")]
                   /\ written' = Wrote(fpath, env.write)
              ELSE /\ resp' = [tool |-> "screenshare_capture", raised |-> FALSE,
                               ok |-> TRUE, path |-> fpath, mime |-> e.mime,
                               width |-> e.width, height |-> e.height]
                   /\ written' = Wrote(fpath, env.write)
    /\ call' = Call("screenshare_capture", a, env)
    /\ burst' = None
    /\ pc' = "done"
    /\ UNCHANGED <<_SRC, live, stopped>>

\* lines 407-411
screenshare_stop(env) ==
    /\ pc = "idle"
    /\ env.close = "raises_held" => live < MaxLive
    /\ LET r == _close_source(_SRC, env)
       IN  /\ _SRC' = r.src
           /\ live' = live - r.closed
    /\ resp' = [tool |-> "screenshare_stop", raised |-> FALSE, ok |-> TRUE]
    /\ call' = Call("screenshare_stop", EmptyDict, env)
    /\ now' = 0 /\ written' = <<>> /\ ngrabs' = 0 /\ lastgrab' = None
    /\ burst' = None
    /\ pc' = "done"
    /\ UNCHANGED stopped

-----------------------------------------------------------------------------
(* screenshare_burst *)

\* int() in the place of round(): the quotient truncated
PyRound_Truncates(num, den) ==
    LET n == IF den < 0 THEN 0 - num ELSE num
        d == IF den < 0 THEN 0 - den ELSE den
    IN  IF n >= 0 THEN n \div d ELSE 0 - ((0 - n) \div d)

\* Python's round() of the float num / den (den # 0): to the nearest integer,
\* an exact half to the even neighbour
PyRound(num, den) ==
    LET n == IF den < 0 THEN 0 - num ELSE num
        d == IF den < 0 THEN 0 - den ELSE den
        q == n \div d
        r == n - q * d
    IN  IF 2 * r < d THEN q
        ELSE IF 2 * r > d THEN q + 1
        ELSE IF q % 2 = 0 THEN q ELSE q + 1

\* lines 349-351: n after the duration override
FrameCount(a) ==
    IF a.duration_ms > 0 THEN Max(1, PyRound(a.duration_ms, a.period_ms)) ELSE a.n

\* line 367: the iterations of the capture loop
Iterations(n) == Max(1, n)

\* line 356, in ms
PeriodMs(a) == Max(0, a.period_ms)

\* line 368 counting the period from the end of the frame before
Target_FromLastFrame(t0, i, a) == IF i = 0 THEN t0 ELSE now + PeriodMs(a)

\* line 368, in ms
Target(t0, i, a) == t0 + i * PeriodMs(a)

\* line 360
MimeFor(fmt) == IF (IF fmt = "" THEN "jpg" ELSE fmt) = "jpg" THEN "image/jpeg" ELSE "image/png"

\* line 364 running the warmup loop no time
Warmups_None(a) == 0

\* line 364: the iterations of the warmup loop
Warmups(a) == Max(0, a.warmup)

\* lines 346-361: the call up to the warmup loop
BurstBegin(a, env) ==
    /\ pc = "idle"
    /\ IF a.duration_ms > 0 /\ a.period_ms = 0 THEN TRUE
       ELSE Iterations(FrameCount(a)) <= MaxFrames
    /\ call' = Call("screenshare_burst", a, env)
    /\ now' = 0 /\ written' = <<>> /\ ngrabs' = 0 /\ lastgrab' = None
    /\ IF _SRC.sct = None
       THEN /\ resp' = [tool |-> "screenshare_burst", raised |-> FALSE, ok |-> FALSE,
                        error |-> Msg("Screen source not initialized")]
            /\ burst' = None
            /\ pc' = "done"
       ELSE IF a.duration_ms > 0 /\ a.period_ms = 0
       THEN /\ resp' = Raised("screenshare_burst", "ZeroDivisionError")
            /\ burst' = None
            /\ pc' = "done"
       ELSE IF ~env.mkdir_ok
       THEN /\ resp' = Raised("screenshare_burst", "OSError")
            /\ burst' = None
            /\ pc' = "done"
       ELSE /\ resp' = None
            /\ burst' = [n |-> FrameCount(a), t0 |-> 0, i |-> 0,
                         warm |-> Warmups(a), paths |-> <<>>,
                         mime_last |-> MimeFor(a.format), w_last |-> 0, h_last |-> 0,
                         grab_at |-> -1, fault |-> "none"]
            /\ pc' = IF Warmups(a) > 0 THEN "warmup" ELSE "frame"
    /\ UNCHANGED <<_SRC, live, stopped>>

\* lines 364-365 with a _grab that drops the handle of _SRC when it fails
BurstWarmup_DropsHandleOnFailure(g) ==
    /\ pc = "warmup"
    /\ ngrabs' = ngrabs + 1
    /\ lastgrab' = _grab(_SRC, g)
    /\ _SRC' = IF _grab(_SRC, g).ok THEN _SRC ELSE [_SRC EXCEPT !.sct = None]
    /\ now' = now + g.ms
    /\ burst' = [burst EXCEPT !.warm = @ - 1]
    /\ pc' = IF burst.warm > 1 THEN "warmup" ELSE "frame"
    /\ UNCHANGED <<live, written, call, resp, stopped>>

\* lines 364-365: one iteration of the warmup loop
BurstWarmup(g) ==
    /\ pc = "warmup"
    /\ ngrabs' = ngrabs + 1
    /\ lastgrab' = _grab(_SRC, g)
    /\ now' = now + g.ms
    /\ burst' = [burst EXCEPT !.warm = @ - 1]
    /\ pc' = IF burst.warm > 1 THEN "warmup" ELSE "frame"
    /\ UNCHANGED <<_SRC, live, written, call, resp, stopped>>

\* lines 394-404
BurstResult(a, b, paths, e) ==
    [tool |-> "screenshare_burst", raised |-> FALSE, ok |-> TRUE, paths |-> paths,
     mime |-> e.mime, width |-> e.width, height |-> e.height, n |-> Len(paths),
     period_ms |-> a.period_ms, duration_ms |-> a.duration_ms,
     save_dir |-> a.save_dir]

\* lines 375 and 379 returning no paths
PartialResult_DropsPaths(error, paths) ==
    [tool |-> "screenshare_burst", raised |-> FALSE, ok |-> FALSE, error |-> error,
     paths |-> <<>>]

\* lines 375 and 379: the failure of a frame, with the paths written so far
PartialResult(error, paths) ==
    [tool |-> "screenshare_burst", raised |-> FALSE, ok |-> FALSE, error |-> error,
     paths |-> paths]

\* lines 367-392: one iteration of the capture loop, and the return after the
\* last one (lines 394-404). time.sleep of line 371 returns env.late ms after
\* the target; without a sleep the grab begins at once.
BurstFrame(env) ==
    /\ pc = "frame"
    /\ Target(burst.t0, burst.i, call.args) <= now => env.late = 0
    /\ LET a == call.args
           i == burst.i
           target == Target(burst.t0, i, a)
           begin == IF target > now THEN target + env.late ELSE now
           g == _grab(_SRC, env.g)
           e == _encode_image_pil(g.img, a.format, env.enc_ok)
           fpath == Path(a.save_dir, BurstName(i, Ext(e.mime), begin + env.g.ms))
           paths == Append(burst.paths, fpath)
       IN  /\ ngrabs' = ngrabs + 1
           /\ lastgrab' = g
           /\ now' = begin + env.g.ms
           /\ IF ~g.ok \/ g.img = None
              THEN /\ resp' = PartialResult(
                                [text |-> "Failed to capture", msg |-> g.msg],
                                burst.paths)
                   /\ burst' = [burst EXCEPT !.grab_at = begin, !.fault = "grab"]
                   /\ written' = written
                   /\ pc' = "done"
              ELSE IF ~e.ok
              THEN /\ resp' = PartialResult(Msg("encode failed"), burst.paths)
                   /\ burst' = [burst EXCEPT !.grab_at = begin, !.fault = "encode"]
                   /\ written' = written
                   /\ pc' = "done"
              ELSE IF env.write # "ok"
              THEN /\ resp' = Raised("screenshare_burst", "OSError")
                   /\ burst' = [burst EXCEPT !.grab_at = begin, !.mime_last = e.mime,
                                             !.w_last = e.width, !.h_last = e.height,
                                             !.fault = "write"]
                   /\ written' = written \o Wrote(fpath, env.write)
                   /\ pc' = "done"
              ELSE /\ burst' = [burst EXCEPT !.grab_at = begin, !.mime_last = e.mime,
                                             !.w_last = e.width, !.h_last = e.height,
                                             !.paths = paths, !.i = i + 1]
                   /\ written' = written \o Wrote(fpath, env.write)
                   /\ IF i + 1 < Iterations(burst.n)
                      THEN resp' = resp /\ pc' = "frame"
                      ELSE resp' = BurstResult(a, burst, paths, e) /\ pc' = "done"
    /\ UNCHANGED <<_SRC, live, call, stopped>>

\* What the environment decides in one iteration of the capture loop, its
\* grab drawn from G; what a failed grab or encode leaves unread is fixed
FrameEnv(G) ==
    {env \in [g : G, enc_ok : BOOLEAN, write : WriteOutcomes, late : 0..MaxOversleep] :
        /\ ~Grabs(env.g) => env.enc_ok
        /\ ~env.enc_ok => env.write = "ok"}

\* What the environment decides in one screenshare_capture
CaptureEnv(G) ==
    {env \in [g : G, enc_ok : BOOLEAN, mkdir_ok : BOOLEAN, write : WriteOutcomes] :
        /\ ~Grabs(env.g) => env.enc_ok
        /\ ~env.enc_ok => env.mkdir_ok
        /\ ~env.mkdir_ok => env.write = "ok"}

\* Whether mss.mss() and sct.monitors raise; read only while no source is open
MssEnv ==
    {env \in [mss_fails : BOOLEAN, monitors_fails : BOOLEAN] :
        ~(env.mss_fails /\ env.monitors_fails)}
NoFault == [mss_fails |-> FALSE, monitors_fails |-> FALSE]

\* What sct.close() does; read only while a source is open
CloseEnv == [close : {"ok", "raises", "raises_held"}]
CloseOk == [close |-> "ok"]

-----------------------------------------------------------------------------
(* The specifications *)

Init ==
    /\ _SRC = SRC0
    /\ live = 0
    /\ pc = "idle"
    /\ burst = None
    /\ now = 0
    /\ written = <<>>
    /\ ngrabs = 0
    /\ lastgrab = None
    /\ call = None
    /\ resp = None
    /\ stopped = None

BurstArgs ==
    [n : {-1, 0, 1, 3}, period_ms : {0, 2}, save_dir : {"."}, format : FormatInputs,
     warmup : {-1, 0, 2}, duration_ms : {0, 1, 3, 5}]

\* The bursts of the specification that explores the capture source
FewBurstArgs ==
    [n : {2}, period_ms : {0, 2}, save_dir : {"."}, format : {"jpg"},
     warmup : {1}, duration_ms : {0, 3}]

\* The sources of the specification that explores the burst
FewStartArgs ==
    [monitor_index : {1, NumMonitors}, left : {1}, top : {0}, width : {2},
     height : {2}, scale : {50, 100}]

\* The grabs of the bursts: the fast path, and one fallback that may be missing
FewGrabEnv ==
    {g \in GrabEnv : g.primary_ok \/ (~g.wsl /\ (g.gnome \/ ~g.grim))}

\* mcp.run(): the response of the finished call goes out and the server awaits
\* the next request; nothing of the call but _SRC and the handles outlives it
\* (stopped is the record of what the call closed, which the program keeps
\* nowhere)
Deliver ==
    /\ pc = "done"
    /\ pc' = "idle"
    /\ call' = None /\ resp' = None /\ burst' = None
    /\ now' = 0 /\ written' = <<>> /\ ngrabs' = 0 /\ lastgrab' = None
    /\ stopped' = IF call.tool = "screenshare_stop" /\ call.pre.sct # None
                  THEN call.pre.props ELSE None
    /\ UNCHANGED <<_SRC, live>>

Steps(startArgs, G, burstArgs, GB) ==
    \/ \E m \in (-1)..NumMonitors, env \in MssEnv : list_displays(m, env)
    \/ \E a \in startArgs, env \in (IF _SRC.sct = None THEN MssEnv ELSE {NoFault}) :
            screenshare_start(a, env)
    \/ screenshare_status
    \/ \E a \in CaptureArgs, env \in CaptureEnv(G) : screenshare_capture(a, env)
    \/ \E a \in burstArgs, env \in [mkdir_ok : BOOLEAN] : BurstBegin(a, env)
    \/ \E g \in GB : BurstWarmup(g)
    \/ \E env \in FrameEnv(GB) : BurstFrame(env)
    \/ \E env \in (IF _SRC.sct = None THEN {CloseOk} ELSE CloseEnv) :
            screenshare_stop(env)
    \/ Deliver

\* The capture source and the fallback chain in full, with a few bursts
Next == Steps(StartArgs, GrabEnv, FewBurstArgs, FewGrabEnv)
Spec == Init /\ [][Next]_vars

\* The burst in full, on a few sources
NextBurst == Steps(FewStartArgs, FewGrabEnv, BurstArgs, FewGrabEnv)
SpecBurst == Init /\ [][NextBurst]_vars

-----------------------------------------------------------------------------
(* The claims *)

\* What screenshare_status reports of a source that is not open
StatusClosed ==
    [tool |-> "screenshare_status", raised |-> FALSE, open |-> FALSE,
     monitor_index |-> 1, props |-> EmptyDict]

\* A call of tool has finished and its response is in resp
Returned(tool) == pc = "done" /\ call.tool = tool

\* i is no index of the enumerated monitors
OutOfRange(i) == i \notin 0..(NumMonitors - 1)

\* C1: with no source open, screenshare_start with a monitor_index outside
\* [0, N-1] (negative ones included), the handle acquired and the monitors
\* enumerated, returns ok=false, has released the handle it acquired and
\* leaves no source open: screenshare_status then reports open=false, the
\* default monitor_index and empty props.
C1_InvalidIndexRefused ==
    (/\ Returned("screenshare_start")
     /\ call.pre.sct = None
     /\ OutOfRange(call.args.monitor_index)
     /\ ~call.env.mss_fails /\ ~call.env.monitors_fails)
    => /\ resp.raised = FALSE
       /\ resp.ok = FALSE
       /\ resp.message.text = "Invalid monitor_index"
       /\ live = call.pre_live
       /\ _SRC.sct = None
       /\ Status(_SRC) = StatusClosed
       /\ resp.props = EmptyDict /\ resp.monitor_index = 1

C1_Witness ==
    /\ Returned("screenshare_start")
    /\ call.pre.sct = None
    /\ call.args.monitor_index < 0
    /\ ~call.env.mss_fails /\ ~call.env.monitors_fails
    /\ resp.raised = FALSE /\ resp.ok = FALSE
    /\ Status(_SRC) = StatusClosed

\* C2: while a source is open screenshare_start is idempotent: whatever its
\* arguments (an out-of-range monitor_index too) it returns ok=true, acquires
\* no handle and leaves monitor_index, region, scale and props as the first
\* start set them, which is what it returns and what screenshare_status
\* reports.
C2_StartIdempotent ==
    (Returned("screenshare_start") /\ call.pre.sct # None)
    => /\ resp.raised = FALSE
       /\ resp.ok = TRUE
       /\ live = call.pre_live
       /\ _SRC = call.pre
       /\ resp.props = call.pre.props
       /\ resp.monitor_index = call.pre.monitor_index
       /\ Status(_SRC) = Status(call.pre)

C2_Witness ==
    /\ Returned("screenshare_start")
    /\ call.pre.sct # None
    /\ OutOfRange(call.args.monitor_index)
    /\ call.args.scale # call.pre.scale
    /\ resp.ok = TRUE
    /\ _SRC = call.pre

\* clamp(s, 0.1, 1.0), in hundredths
Clamp(s) == IF s < 10 THEN 10 ELSE IF s > 100 THEN 100 ELSE s

\* A screenshare_start has just opened the source
Opened ==
    /\ Returned("screenshare_start")
    /\ call.pre.sct = None
    /\ resp.raised = FALSE
    /\ resp.ok = TRUE

\* C3, as claimed: after a successful screenshare_start the effective scale,
\* stored and reported in props, is clamp(scale, 0.1, 1.0) for every scale
\* input, zero included.
C3_ScaleClampedAlways ==
    Opened => /\ _SRC.scale = Clamp(call.args.scale)
              /\ resp.props.scale = Clamp(call.args.scale)

\* C3, amended: the effective scale is clamp(scale, 0.1, 1.0) for every scale
\* input other than zero, and 1.0 for a scale of zero.
C3_ScaleClampedUnlessZero ==
    Opened => /\ _SRC.scale = IF call.args.scale = 0 THEN 100
                              ELSE Clamp(call.args.scale)
              /\ resp.props.scale = _SRC.scale
              /\ _SRC.props.scale = _SRC.scale

C3_Witness ==
    /\ Opened
    /\ call.args.scale < 0
    /\ _SRC.scale = 10

\* C4: with no source open screenshare_capture and screenshare_burst return
\* ok=false with the 'not initialized' error, attempt no capture mechanism
\* and write no file.
C4_NotInitialized ==
    (/\ pc = "done"
     /\ call.tool \in {"screenshare_capture", "screenshare_burst"}
     /\ call.pre.sct = None)
    => /\ resp.raised = FALSE
       /\ resp.ok = FALSE
       /\ resp.error = Msg("Screen source not initialized")
       /\ (lastgrab # None => lastgrab.tried = <<>>)
       /\ ngrabs = (IF call.tool = "screenshare_capture" THEN 1 ELSE 0)
       /\ written = <<>>
       /\ _SRC.sct = None

C4_Witness ==
    /\ Returned("screenshare_capture")
    /\ call.pre.sct = None
    /\ call.pre_live > 0
    /\ resp.ok = FALSE
    /\ written = <<>>

Abs(x) == IF x < 0 THEN 0 - x ELSE x

\* The paths of the files written, in the order of writing
WrittenPaths == [j \in 1..Len(written) |-> written[j].path]

\* A screenshare_burst on an open source has got past its directory creation
\* and has finished
BurstRan ==
    /\ Returned("screenshare_burst")
    /\ call.pre.sct # None
    /\ burst # None

\* The paths of a burst result: one per frame, in capture order, with the
\* sequence indices 0, 1, ... and no path twice
InSequence(paths) ==
    /\ \A j \in 1..Len(paths) : paths[j].name.seq = j - 1
    /\ \A j \in 1..(Len(paths) - 1) : paths[j].name.ts <= paths[j + 1].name.ts
    /\ \A j, k \in 1..Len(paths) : j # k => paths[j] # paths[k]

\* What a burst of cnt frames returns and writes when nothing fails
FullBurst(cnt) ==
    /\ resp.raised = FALSE
    /\ resp.ok = TRUE
    /\ Len(resp.paths) = cnt
    /\ resp.n = cnt
    /\ Len(written) = cnt
    /\ resp.paths = WrittenPaths
    /\ \A j \in 1..Len(written) : written[j].complete
    /\ InSequence(resp.paths)

\* C5, as claimed: with a source open, duration_ms = 0 and nothing failing,
\* screenshare_burst(n, ...) writes exactly n files and returns ok=true with n
\* paths and result n equal to the requested n, the paths in capture order
\* with the sequence indices 0..n-1 and no two equal.
C5_BurstOfRequestedN ==
    (BurstRan /\ burst.fault = "none" /\ call.args.duration_ms = 0)
    => FullBurst(call.args.n)

\* C5, amended: the same of max(1, n) frames: a burst asked for n <= 0 frames
\* captures one.
C5_BurstOfAtLeastOne ==
    (BurstRan /\ burst.fault = "none" /\ call.args.duration_ms = 0)
    => FullBurst(IF call.args.n >= 1 THEN call.args.n ELSE 1)

C5_Witness ==
    /\ BurstRan /\ burst.fault = "none" /\ call.args.duration_ms = 0
    /\ call.args.n = 3
    /\ Len(resp.paths) = 3
    /\ resp.paths[1].name.ts = resp.paths[2].name.ts

\* d / p rounded to the nearest integer, an exact half upwards
RoundHalfUp(d, p) == (2 * d + p) \div (2 * p)

\* r is the integer nearest to d / p, of the two nearest the even one
NearestTiesToEven(r, d, p) ==
    \/ 2 * Abs(r * p - d) < p
    \/ 2 * Abs(r * p - d) = p /\ r % 2 = 0

\* A burst that counts cnt iterations: it grabs no more than cnt frames, and
\* cnt frames when none fails
CountsFrames(cnt) ==
    /\ Iterations(burst.n) = cnt
    /\ ngrabs - Max(0, call.args.warmup) <= cnt
    /\ burst.fault = "none" => /\ ngrabs - Max(0, call.args.warmup) = cnt
                               /\ resp.n = cnt

C7_PartialPathsKept ==
    (BurstRan /\ burst.fault \in {"grab", "encode"})
    => /\ resp.raised = FALSE
       /\ resp.ok = FALSE
       /\ Len(resp.paths) = burst.i
       /\ resp.paths = WrittenPaths
       /\ \A j \in 1..Len(written) : written[j].complete
       /\ InSequence(resp.paths)
       /\ ngrabs = Max(0, call.args.warmup) + burst.i + 1

C7_Witness ==
    /\ BurstRan /\ burst.fault = "grab"
    /\ burst.i = 2
    /\ Len(resp.paths) = 2
    /\ Len(written) = 2

\* C8: screenshare_stop returns ok=true from any state (no source open, a
\* source open, sct.close() raising), and leaves _SRC at its defaults:
\* screenshare_status then reports open=false, the default monitor_index and
\* empty props.
C8_StopResets ==
    Returned("screenshare_stop")
    => /\ resp = [tool |-> "screenshare_stop", raised |-> FALSE, ok |-> TRUE]
       /\ _SRC = SRC0
       /\ Status(_SRC) = StatusClosed

C8_Witness ==
    /\ Returned("screenshare_stop")
    /\ call.pre.sct # None
    /\ call.pre.props # EmptyDict
    /\ call.env.close = "raises"
    /\ resp.ok = TRUE
    /\ Status(_SRC) = StatusClosed

\* C9: every tool call ends in a structured response: no fault leaves a tool
\* as an uncaught error.
C9_NoToolRaises ==
    pc = "done" => resp.raised = FALSE

\* C10: when a grab on an open source fails, each mechanism it tried having
\* failed, its message holds the reason of every mechanism tried, the
\* PowerShell fallback's being "n/a" when it was not tried, and the tool
\* reports that message.
C10_EveryReasonReported ==
    (pc # "idle" /\ lastgrab # None /\ lastgrab.tried # <<>> /\ ~lastgrab.ok)
    => /\ lastgrab.msg.text = "Failed to grab"
       /\ \A j \in 1..Len(lastgrab.tried) :
            /\ ~lastgrab.tried[j].ok
            /\ lastgrab.msg[lastgrab.tried[j].mech] = lastgrab.tried[j].err
       /\ (\A j \in 1..Len(lastgrab.tried) : lastgrab.tried[j].mech # "wsl_ps")
            => lastgrab.msg.wsl_ps = Msg("n/a")
       /\ \E j \in 1..Len(lastgrab.tried) : lastgrab.tried[j].mech = "mss"
       /\ \E j \in 1..Len(lastgrab.tried) : lastgrab.tried[j].mech = "fallback"
       /\ Returned("screenshare_capture") => resp.error = lastgrab.msg
       /\ (Returned("screenshare_burst") /\ burst # None /\ burst.fault = "grab")
            => resp.error.msg = lastgrab.msg

C10_Witness ==
    /\ Returned("screenshare_capture")
    /\ lastgrab # None /\ ~lastgrab.ok
    /\ Len(lastgrab.tried) = 3
    /\ lastgrab.tried[2].mech = "wsl_ps"
    /\ resp.error.wsl_ps = lastgrab.tried[2].err
    /\ resp.error.fallback = lastgrab.tried[3].err

\* C11: list_displays(max_index) with N monitors enumerated returns exactly
\* the entries of the indices 0..min(max_index, N-1), in increasing order of
\* index (none when max_index < 0), each with the geometry of its monitor and
\* virtual=true for index 0 alone; when mss.mss() or sct.monitors raises it
\* returns an empty list and an error, and does not raise. In both cases _SRC
\* and the handles held are as before the call.
C11_DisplaysListed ==
    Returned("list_displays")
    => /\ resp.raised = FALSE
       /\ _SRC = call.pre
       /\ live = call.pre_live
       /\ IF call.env.mss_fails \/ call.env.monitors_fails
          THEN resp.displays = <<>> /\ resp.error # None
          ELSE /\ resp.error = None
               /\ Len(resp.displays) =
                    Cardinality({i \in 0..(NumMonitors - 1) : i <= call.args.max_index})
               /\ \A k \in 1..Len(resp.displays) :
                    /\ resp.displays[k].index = k - 1
                    /\ resp.displays[k].virtual = (resp.displays[k].index = 0)
                    /\ resp.displays[k].left = Monitors[k - 1].left
                    /\ resp.displays[k].top = Monitors[k - 1].top
                    /\ resp.displays[k].width = Monitors[k - 1].width
                    /\ resp.displays[k].height = Monitors[k - 1].height

C11_Witness ==
    /\ Returned("list_displays")
    /\ call.pre.sct # None
    /\ ~call.env.mss_fails /\ ~call.env.monitors_fails
    /\ call.args.max_index = 1
    /\ Len(resp.displays) = 2
    /\ resp.displays[1].virtual /\ ~resp.displays[2].virtual

\* A _grab of the last or the running call has attempted a mechanism
Grabbed == pc # "idle" /\ lastgrab # None /\ lastgrab.tried # <<>>

\* The position in lastgrab.tried of mechanism mech, 0 when it was not tried
TriedAt(mech) ==
    IF \E j \in 1..Len(lastgrab.tried) : lastgrab.tried[j].mech = mech
    THEN CHOOSE j \in 1..Len(lastgrab.tried) : lastgrab.tried[j].mech = mech
    ELSE 0

\* C12: a grab on an open source attempts its mechanisms in the order mss,
\* PowerShell (WSL), compositor utility: mss is always the first; PowerShell
\* is attempted only after mss failed and with _is_wsl() true; the compositor
\* utility only after mss failed and PowerShell failed or was skipped, and of
\* the two utilities grim only when gnome-screenshot is not on PATH; once a
\* mechanism has succeeded none is attempted, and none is attempted twice.
C12_FallbackOrder ==
    Grabbed
    => LET t == lastgrab.tried
           g == lastgrab.env
       IN  /\ t[1].mech = "mss"
           /\ \A j \in 2..Len(t) : ~t[j - 1].ok
           /\ \A j, k \in 1..Len(t) : j # k => t[j].mech # t[k].mech
           /\ \A j \in 1..Len(t) : t[j].mech \in {"mss", "wsl_ps", "fallback"}
           /\ TriedAt("wsl_ps") # 0
                => /\ TriedAt("wsl_ps") = 2
                   /\ ~t[1].ok
                   /\ g.wsl
           /\ TriedAt("fallback") # 0
                => /\ TriedAt("fallback") = Len(t)
                   /\ ~t[1].ok
                   /\ IF TriedAt("wsl_ps") # 0 THEN ~t[2].ok ELSE ~g.wsl
                   /\ t[Len(t)].util = "grim" => ~g.gnome
                   /\ t[Len(t)].util = "gnome-screenshot" => g.gnome
           /\ lastgrab.ok = t[Len(t)].ok

C12_Witness ==
    /\ Grabbed
    /\ Len(lastgrab.tried) = 3
    /\ lastgrab.env.wsl /\ ~lastgrab.env.gnome /\ lastgrab.env.grim
    /\ lastgrab.tried[3].util = "grim"
    /\ lastgrab.ok

\* The image a mechanism obtains, before any resize: mss the region of the
\* source, PowerShell the Windows primary screen, the compositor utility the
\* whole desktop
Obtained(mech) ==
    IF mech = "mss"
    THEN [width |-> _SRC.region.width, height |-> _SRC.region.height]
    ELSE IF mech = "wsl_ps"
    THEN [width |-> HostW, height |-> HostH]
    ELSE [width |-> Monitors[0].width, height |-> Monitors[0].height]

\* floor(x * s) for the scale s in hundredths, and not below 1
FloorScaled(x, s) ==
    LET f == CHOOSE k \in 0..x : k * 100 <= x * s /\ x * s < (k + 1) * 100
    IN  IF f < 1 THEN 1 ELSE f

\* C13: whichever mechanism gets the frame, _grab returns it resized by the
\* one rule: with the effective scale s < 1.0 its width is max(1, floor(w*s))
\* and its height max(1, floor(h*s)), (w, h) the size of the image obtained;
\* with s = 1.0 it has the size obtained. screenshare_capture reports that
\* size.
C13_SameScalingEveryMechanism ==
    (Grabbed /\ lastgrab.ok)
    => LET mech == lastgrab.tried[Len(lastgrab.tried)].mech
           o == Obtained(mech)
           s == _SRC.scale
       IN  /\ s \in 10..100
           /\ IF s < 100
              THEN /\ lastgrab.img.width = FloorScaled(o.width, s)
                   /\ lastgrab.img.height = FloorScaled(o.height, s)
              ELSE lastgrab.img = o
           /\ (Returned("screenshare_capture") /\ resp.raised = FALSE /\ resp.ok)
                => resp.width = lastgrab.img.width /\ resp.height = lastgrab.img.height

C13_Witness ==
    /\ Grabbed /\ lastgrab.ok
    /\ lastgrab.tried[Len(lastgrab.tried)].mech = "wsl_ps"
    /\ _SRC.scale = 50
    /\ lastgrab.img.width < HostW
    /\ lastgrab.img.width = FloorScaled(HostW, 50)
    /\ Returned("screenshare_capture") /\ resp.raised = FALSE /\ resp.ok

\* x, and 0 for a negative x
NonNegative(x) == IF x < 0 THEN 0 ELSE x

\* C14: after a successful screenshare_start on display D with (left, top,
\* width, height): with width <= 0 or height <= 0 the region stored is the
\* bounds of D, whatever left and top; otherwise it is (D.left + max(0, left),
\* D.top + max(0, top), width, height). Either way its width and height are
\* at least 1, and props holds the same region.
C14_RegionComputed ==
    Opened
    => LET a == call.args
           D == Monitors[a.monitor_index]
           r == _SRC.region
       IN  /\ (a.width <= 0 \/ a.height <= 0)
                => /\ r.left = D.left /\ r.top = D.top
                   /\ r.width = D.width /\ r.height = D.height
           /\ (a.width > 0 /\ a.height > 0)
                => /\ r.left = D.left + NonNegative(a.left)
                   /\ r.top = D.top + NonNegative(a.top)
                   /\ r.width = a.width /\ r.height = a.height
           /\ r.width >= 1 /\ r.height >= 1
           /\ _SRC.props.region = r
           /\ resp.props.region = r

C14_Witness ==
    /\ Opened
    /\ call.args.monitor_index = 2
    /\ call.args.left < 0 /\ call.args.top < 0
    /\ call.args.width > 0 /\ call.args.height > 0
    /\ _SRC.region.left = Monitors[2].left
    /\ _SRC.region.width = call.args.width

\* The warmup grabs asked of the running or the last burst
WarmupsAsked == IF call.args.warmup > 0 THEN call.args.warmup ELSE 0

\* The locals of a burst as its first frame begins
BeforeFirstFrame ==
    /\ burst.i = 0
    /\ burst.paths = <<>>
    /\ burst.w_last = 0 /\ burst.h_last = 0
    /\ burst.grab_at = -1
    /\ burst.fault = "none"
    /\ written = <<>>
    /\ resp = None

\* C15: a burst on an open source makes exactly max(0, warmup) grabs before
\* the grab of its first frame; whether they succeed or fail they add no path,
\* write no file and end no burst, the first frame beginning with the locals
\* of a burst that has captured nothing; every frame then takes one grab, so
\* a burst whose frames all succeed has made max(0, warmup) + frames grabs.
C15_WarmupDiscarded ==
    /\ pc = "warmup"
        => /\ ngrabs < WarmupsAsked
           /\ burst.warm = WarmupsAsked - ngrabs
           /\ BeforeFirstFrame
    /\ pc = "frame"
        => /\ ngrabs = WarmupsAsked + burst.i
           /\ burst.warm = (IF WarmupsAsked > 0 THEN 0 ELSE burst.warm)
           /\ burst.i = 0 => BeforeFirstFrame
    /\ (BurstRan /\ burst.fault = "none")
        => /\ ngrabs = WarmupsAsked + Iterations(burst.n)
           /\ Len(resp.paths) = Iterations(burst.n)
           /\ Len(written) = Iterations(burst.n)
    /\ (BurstRan /\ burst.fault # "none")
        => ngrabs = WarmupsAsked + burst.i + 1

C15_Witness ==
    /\ pc = "frame"
    /\ burst.i = 0
    /\ call.args.warmup = 2
    /\ ngrabs = 2
    /\ lastgrab # None /\ lastgrab.tried # <<>> /\ ~lastgrab.ok
    /\ BeforeFirstFrame

\* The period of the running burst, ms
PeriodAsked == IF call.args.period_ms > 0 THEN call.args.period_ms ELSE 0

\* C16: in a burst begun at t0 with the period p >= 0 the grab of frame i
\* never begins before t0 + i*p, a target that depends on t0 and i alone:
\* with the frame before finished (the clock at now) before the target, the
\* grab waits for the target and begins no later than the oversleep of one
\* time.sleep after it; with it finished at or after the target, the grab
\* begins at once, at now. t0 does not move while the burst runs.
C16_AbsoluteTargets ==
    [][pc = "frame"
        => LET target == burst.t0 + burst.i * PeriodAsked
           IN  /\ burst'.grab_at >= target
               /\ burst'.grab_at >= now
               /\ now >= target => burst'.grab_at = now
               /\ now < target => burst'.grab_at <= target + MaxOversleep
               /\ now' = burst'.grab_at + lastgrab'.env.ms
               /\ burst'.t0 = burst.t0]_vars

\* Frame 1 of a burst of period 2 ms, grabbed at once at 3 ms: two warmup
\* grabs and frame 0 took 1 ms each
C16_Witness ==
    /\ pc = "frame"
    /\ burst.i = 2
    /\ call.args.period_ms = 2
    /\ call.args.warmup = 2
    /\ burst.grab_at = 3
    /\ burst.grab_at > burst.t0 + 1 * PeriodAsked
    /\ now = 4

\* C17: screenshare_status only reads: in every reachable state it leaves
\* the handle, monitor_index, region, scale and props of _SRC as they were,
\* acquires and releases no handle, grabs nothing and writes no file; it
\* reports open=true exactly when _SRC holds a handle, with the monitor_index
\* and the props of _SRC.
C17_StatusOnlyReads ==
    Returned("screenshare_status")
    => /\ _SRC = call.pre
       /\ live = call.pre_live
       /\ written = <<>>
       /\ ngrabs = 0
       /\ resp.raised = FALSE
       /\ resp.open = (_SRC.sct # None)
       /\ resp.monitor_index = _SRC.monitor_index
       /\ resp.props = _SRC.props

C17_Witness ==
    /\ Returned("screenshare_status")
    /\ call.pre.sct # None
    /\ call.pre.scale = 50
    /\ resp.open
    /\ resp.props.scale = 50
    /\ _SRC = call.pre

\* C18: between tool calls, whatever calls were made and whichever of them
\* failed, the capture handles acquired and not yet released are one when a
\* source is open and none when no source is open, so never more than one.
C18_OneHandleIffOpen ==
    pc \in {"idle", "done"}
    => /\ live = (IF _SRC.sct # None THEN 1 ELSE 0)
       /\ live <= 1

\* C19: screenshare_capture and screenshare_burst never change _SRC: while
\* one runs and after it has ended, by a result, by an error it returns
\* (every mechanism failing, the encoder failing, the write failing) or by an
\* exception, the handle, monitor_index, region, scale and props are those
\* of before the call, and no handle was acquired or released; a source that
\* was open is open with the same configuration.
C19_CaptureLeavesSource ==
    (pc # "idle" /\ call.tool \in {"screenshare_capture", "screenshare_burst"})
    => /\ _SRC = call.pre
       /\ live = call.pre_live
       /\ Status(_SRC) = Status(call.pre)

C19_Witness ==
    /\ BurstRan
    /\ burst.fault = "grab"
    /\ burst.i = 1
    /\ call.args.warmup = 2
    /\ resp.ok = FALSE
    /\ _SRC.sct # None
    /\ _SRC = call.pre

\* screenshare_start(B) has returned, B valid and the display subsystem
\* working, and the call before it was the screenshare_stop of an open source
StartedAfterStop ==
    /\ Returned("screenshare_start")
    /\ stopped # None
    /\ ~OutOfRange(call.args.monitor_index)
    /\ ~call.env.mss_fails /\ ~call.env.monitors_fails

\* C20: the configuration of a source does not survive its stop: after
\* start(A), stop, start(B), A and B valid, a source is open with the
\* monitor_index of B, the region computed from B and its display and the
\* scale computed from B, in _SRC and in props, whatever A was.
C20_NothingCarriedOver ==
    StartedAfterStop
    => LET B == call.args
           D == Monitors[B.monitor_index]
           full == B.width <= 0 \/ B.height <= 0
       IN  /\ resp.raised = FALSE /\ resp.ok
           /\ _SRC.sct # None
           /\ _SRC.monitor_index = B.monitor_index
           /\ _SRC.region =
                [left |-> IF full THEN D.left ELSE D.left + NonNegative(B.left),
                 top |-> IF full THEN D.top ELSE D.top + NonNegative(B.top),
                 width |-> IF full THEN D.width ELSE B.width,
                 height |-> IF full THEN D.height ELSE B.height]
           /\ _SRC.scale = (IF B.scale = 0 THEN 100 ELSE Clamp(B.scale))
           /\ _SRC.props = [monitor_index |-> _SRC.monitor_index,
                            region |-> _SRC.region, scale |-> _SRC.scale]
           /\ resp.props = _SRC.props
           /\ Status(_SRC).props = _SRC.props

C20_Witness ==
    /\ StartedAfterStop
    /\ resp.raised = FALSE /\ resp.ok
    /\ stopped.monitor_index # _SRC.monitor_index
    /\ stopped.region.width # _SRC.region.width
    /\ stopped.scale = 50 /\ _SRC.scale = 100
    /\ call.args.width <= 0

=============================================================================
